---------------------------- MODULE Spec2Model ----------------------------
(***************************************************************************)
(* Model of the `gen` command of eatc-airlines (src/src/cli.ts, latest     *)
(* revision, lines 942-1657): the record normalizer, the aggregator, the   *)
(* scoring and the listing, together with the helper tailToCallsign.       *)
(*                                                                         *)
(* A JavaScript string is modelled as a sequence of one-character strings, *)
(* so that slicing, searching and per-character tests are computed and not *)
(* assumed.  null and undefined are the one-element sequences NULL and     *)
(* UNDEFINED, whose element is no character.                               *)
(***************************************************************************)
EXTENDS Integers, Sequences, FiniteSets, TLC

VARIABLES
    pc,         \* position in the gen action / in the function under test
    prefixes,   \* data/prefixes.json, in file order
    loaded,     \* value of loadFlights(paths): the collection before the pass
    flights,    \* the Map<number, Flight>, as its entries in insertion order
    cursor,     \* position of the live Map iterator of the normalizer loop
    visits,     \* the normalizer's iterations so far: id visited, branch, effect
    merged,     \* the cluster array
    mcursor,    \* position of the merge loop in flights.values()
    warnings,   \* lines written to process.stderr
    output,     \* rows written to process.stdout (the listing)
    args,       \* arguments of the function under test
    result,     \* its return value
    concurrency, \* fetch: Number.parseInt(options.concurrency)
    keys,       \* fetch: the keys not yet done, the current one first
    more,       \* fetch: "let more" of the pagination loop
    t,          \* fetch: "let t", counted in steps of 27e5 ms
    location,   \* fetch: the lines appended to the output location
    results     \* fetch: the settled requests of the batch in flight

fetchVars == <<concurrency, keys, more, t, location, results>>

vars == <<pc, prefixes, loaded, flights, cursor, visits, merged, mcursor,
          warnings, output, args, result, concurrency, keys, more, t, location,
          results>>

\* the locals of the fetch action where fetch is not running
NoFetch ==
    /\ concurrency = 0
    /\ keys = <<>>
    /\ more = FALSE
    /\ t = 0
    /\ location = <<>>
    /\ results = <<>>

-----------------------------------------------------------------------------
(* Strings *)

NULL == <<"null">>

UNDEFINED == <<"undefined">>

alphabet == <<"A","B","C","D","E","F","G","H","I","J","K","L","M",
              "N","O","P","Q","R","S","T","U","V","W","X","Y","Z">>

lowercase == <<"a","b","c","d","e","f","g","h","i","j","k","l","m",
               "n","o","p","q","r","s","t","u","v","w","x","y","z">>

digits == <<"1","2","3","4","5","6","7","8","9","0">>

Range(s) == {s[i] : i \in 1..Len(s)}

IsDigit(c) == c \in Range(digits)

IsUpperLetter(c) == c \in Range(alphabet)

IsLowerLetter(c) == c \in Range(lowercase)

IsSpace(c) == c = " "

\* String.prototype.toUpperCase, one character
UpperChar(c) ==
    IF IsLowerLetter(c)
    THEN alphabet[CHOOSE i \in 1..26 : lowercase[i] = c]
    ELSE c

\* String.prototype.toLowerCase, one character
LowerChar(c) ==
    IF IsUpperLetter(c)
    THEN lowercase[CHOOSE i \in 1..26 : alphabet[i] = c]
    ELSE c

toUpperCase(s) == [i \in 1..Len(s) |-> UpperChar(s[i])]

toLowerCase(s) == [i \in 1..Len(s) |-> LowerChar(s[i])]

\* s.includes(c) for a one-character c
includes(s, c) == \E i \in 1..Len(s) : s[i] = c

\* s.indexOf(c) for a one-character c: 0-based, -1 when absent
indexOf(s, c) ==
    IF includes(s, c)
    THEN (CHOOSE i \in 1..Len(s) : s[i] = c /\ \A j \in 1..(i-1) : s[j] # c) - 1
    ELSE -1

\* s.slice(from) and s.slice(from, to) with 0-based, non-negative indices
sliceFrom(s, from) == SubSeq(s, from + 1, Len(s))

slice(s, from, to) == SubSeq(s, from + 1, IF to < Len(s) THEN to ELSE Len(s))

\* s.slice(0, -1)
dropLast(s) == SubSeq(s, 1, Len(s) - 1)

startsWith(s, p) == Len(p) <= Len(s) /\ SubSeq(s, 1, Len(p)) = p

endsWith(s, c) == Len(s) > 0 /\ s[Len(s)] = c

\* s.replace("-", ""): a string pattern replaces the FIRST occurrence only
replaceDash(s) ==
    IF includes(s, "-")
    THEN SubSeq(s, 1, indexOf(s, "-")) \o SubSeq(s, indexOf(s, "-") + 2, Len(s))
    ELSE s

\* /^[A-Z]{3}\d[A-Z\d]{0,3}$/.test(s)
testAirlineCallsign(s) ==
    /\ Len(s) >= 4
    /\ Len(s) <= 7
    /\ \A i \in 1..3 : IsUpperLetter(s[i])
    /\ IsDigit(s[4])
    /\ \A i \in 5..Len(s) : IsUpperLetter(s[i]) \/ IsDigit(s[i])

\* variant /^[A-Z]{3,}/.test(s)
testThreeLetters(s) ==
    /\ Len(s) >= 3
    /\ \A i \in 1..3 : IsUpperLetter(s[i])

\* /^[A-Z]{4,}/.test(s)
testFourLetters(s) ==
    /\ Len(s) >= 4
    /\ \A i \in 1..4 : IsUpperLetter(s[i])

\* s.replace(/[^A-Z\d]/g, "")
stripNonAlnum(s) == SelectSeq(s, LAMBDA c : IsUpperLetter(c) \/ IsDigit(c))

-----------------------------------------------------------------------------
(* tailToCallsign, cli.ts:1029-1041 *)

RECURSIVE localPartFormat(_, _, _)
\* the map over localPart.split(""), with indices.letter and indices.number
\* carried from one character to the next
localPartFormat(localPart, letter, number) ==
    IF localPart = <<>> THEN <<>>
    ELSE LET char == Head(localPart) IN
         IF IsDigit(char)
         THEN <<digits[(number % Len(digits)) + 1]>>
              \o localPartFormat(Tail(localPart), letter, number + 1)
         ELSE IF IsUpperLetter(char)
         THEN <<alphabet[(letter % Len(alphabet)) + 1]>>
              \o localPartFormat(Tail(localPart), letter + 1, number)
         ELSE <<char>> \o localPartFormat(Tail(localPart), letter, number)

RECURSIVE localPartFormatShared(_, _, _)
\* variant with a single cursor shared by letters and digits
localPartFormatShared(localPart, letter, number) ==
    IF localPart = <<>> THEN <<>>
    ELSE LET char == Head(localPart) IN
         IF IsDigit(char)
         THEN <<digits[((letter + number) % Len(digits)) + 1]>>
              \o localPartFormatShared(Tail(localPart), letter, number + 1)
         ELSE IF IsUpperLetter(char)
         THEN <<alphabet[((letter + number) % Len(alphabet)) + 1]>>
              \o localPartFormatShared(Tail(localPart), letter + 1, number)
         ELSE <<char>> \o localPartFormatShared(Tail(localPart), letter, number)

tailToCallsignShared(prefix, sample) ==
    toUpperCase(prefix) \o <<"-">> \o localPartFormatShared(toUpperCase(sample), 0, 0)

tailToCallsign(prefix, sample) ==
    toUpperCase(prefix) \o <<"-">> \o localPartFormat(toUpperCase(sample), 0, 0)

-----------------------------------------------------------------------------
(* api: Location, Direction, Flight *)

Location(name, lat, lon) == [name |-> name, lat |-> lat, lon |-> lon]

\* LatLon.bearing(to) for two points on the same meridian or both on the
\* equator, where the forward-azimuth formula is exactly 0, 90, 180 or 270
bearing(a, b) ==
    IF a.lon = b.lon
    THEN (IF b.lat >= a.lat THEN 0 ELSE 180)
    ELSE (IF b.lon > a.lon THEN 90 ELSE 270)

\* a % n of JavaScript for n > 0: the remainder has the sign of a
remainder(a, n) == IF a >= 0 THEN a % n ELSE 0 - ((0 - a) % n)

\* variant with the intervals closed at their upper end
fromBearingClosedAbove(b) ==
    LET normalisedBearing == remainder(b + 360, 360) IN
    IF normalisedBearing > 225 /\ normalisedBearing <= 315 THEN "W"
    ELSE IF normalisedBearing > 135 /\ normalisedBearing <= 225 THEN "S"
    ELSE IF normalisedBearing > 45 /\ normalisedBearing <= 135 THEN "E"
    ELSE "N"

\* Direction.fromBearing
fromBearing(b) ==
    LET normalisedBearing == remainder(b + 360, 360) IN
    IF normalisedBearing >= 225 /\ normalisedBearing < 315 THEN "W"
    ELSE IF normalisedBearing >= 135 /\ normalisedBearing < 225 THEN "S"
    ELSE IF normalisedBearing >= 45 /\ normalisedBearing < 135 THEN "E"
    ELSE "N"

\* new Flight(id, time, tail, type, airline, callsign, to, from, bound)
Flight(id, time, tail, type, airline, callsign, to, from, bound) ==
    [id |-> id, time |-> time, tail |-> tail, type |-> type,
     airline |-> airline, callsign |-> callsign, to |-> to, from |-> from,
     bound |-> bound]

\* Flight.direction(): the direction from the destination toward the origin
direction(flight) == fromBearing(bearing(flight.to, flight.from))

\* PHONETIC[c] ?? c
PHONETIC(c) ==
    CASE c = "A" -> <<"A","l","p","h","a">>
      [] c = "B" -> <<"B","r","a","v","o">>
      [] c = "C" -> <<"C","h","a","r","l","i","e">>
      [] c = "D" -> <<"D","e","l","t","a">>
      [] c = "E" -> <<"E","c","h","o">>
      [] c = "F" -> <<"F","o","x","t","r","o","t">>
      [] c = "G" -> <<"G","o","l","f">>
      [] c = "H" -> <<"H","o","t","e","l">>
      [] c = "I" -> <<"I","n","d","i","a">>
      [] c = "J" -> <<"J","u","l","i","e","t">>
      [] c = "K" -> <<"K","i","l","o">>
      [] c = "L" -> <<"L","i","m","a">>
      [] c = "M" -> <<"M","i","k","e">>
      [] c = "N" -> <<"N","o","v","e","m","b","e","r">>
      [] c = "O" -> <<"O","s","c","a","r">>
      [] c = "P" -> <<"P","a","p","a">>
      [] c = "Q" -> <<"Q","u","e","b","e","c">>
      [] c = "R" -> <<"R","o","m","e","o">>
      [] c = "S" -> <<"S","i","e","r","r","a">>
      [] c = "T" -> <<"T","a","n","g","o">>
      [] c = "U" -> <<"U","n","i","f","o","r","m">>
      [] c = "V" -> <<"V","i","c","t","o","r">>
      [] c = "W" -> <<"W","h","i","s","k","y">>
      [] c = "X" -> <<"X","-","R","a","y">>
      [] c = "Y" -> <<"Y","a","n","k","e","e">>
      [] c = "Z" -> <<"Z","u","l","u">>
      [] OTHER -> <<c>>

\* NUMBERS: the spoken word of a digit
NUMBERS(c) ==
    CASE c = "0" -> <<"z","e","r","o">>
      [] c = "1" -> <<"o","n","e">>
      [] c = "2" -> <<"t","w","o">>
      [] c = "3" -> <<"t","h","r","e","e">>
      [] c = "4" -> <<"f","o","u","r">>
      [] c = "5" -> <<"f","i","v","e">>
      [] c = "6" -> <<"s","i","x">>
      [] c = "7" -> <<"s","e","v","e","n">>
      [] c = "8" -> <<"e","i","g","h","t">>
      [] c = "9" -> <<"n","i","n","e">>

\* Object.entries(NUMBERS): the keys, in order
NUMBERSKeys == <<"0","1","2","3","4","5","6","7","8","9">>

-----------------------------------------------------------------------------
(* Reference data read by gen *)

\* data/helicopters.json: upper-case type designators
helicopters == {<<"H","6","0">>, <<"E","C","3","5">>}

\* data/callsigns.json: airline code -> pronunciation
callsignsKeys == {<<"B","A","W">>, <<"D","L","H">>}

callsignsGet(k) ==
    IF k = <<"B","A","W">> THEN <<"s","p","e","e","d","b","i","r","d">>
    ELSE IF k = <<"D","L","H">> THEN <<"l","u","f","t","h","a","n","s","a">>
    ELSE UNDEFINED

callsignsValues == {callsignsGet(k) : k \in callsignsKeys}

\* data/prefixes.json: the file fixes an order, the code does not sort it
PrefixLists == {<<<<"N">>, <<"N","A">>, <<"G">>>>,
                <<<<"N","A">>, <<"N">>, <<"G">>>>}

PVT == <<"{","P","V","T","}">>

-----------------------------------------------------------------------------
(* gen: the normalizer, cli.ts:1364-1449 *)

\* variant that compares the type as written
discardedAtFirstAsWritten(flight) ==
    \/ flight.type \in helicopters
    \/ (flight.airline = NULL /\ flight.callsign = NULL)
    \/ (flight.airline = NULL /\ flight.tail = NULL)

\* variant that discards on a null callsign alone
discardedAtFirstNoCallsign(flight) ==
    \/ toUpperCase(flight.type) \in helicopters
    \/ flight.callsign = NULL
    \/ (flight.airline = NULL /\ flight.tail = NULL)

\* variant without the test of a null callsign
discardedAtFirstTailOnly(flight) ==
    \/ toUpperCase(flight.type) \in helicopters
    \/ (flight.airline = NULL /\ flight.tail = NULL)

\* the first if of the loop body
discardedAtFirst(flight) ==
    \/ toUpperCase(flight.type) \in helicopters
    \/ (flight.airline = NULL /\ flight.callsign = NULL)
    \/ (flight.airline = NULL /\ flight.tail = NULL)

\* flight.tail !== null && flight.callsign !== null
\*   && tail.replace("-", "").toUpperCase() === callsign.replace("-", "").toUpperCase()
isRegistration(flight) ==
    /\ flight.tail # NULL
    /\ flight.callsign # NULL
    /\ toUpperCase(replaceDash(flight.tail)) = toUpperCase(replaceDash(flight.callsign))

\* variant that hands origin and destination over in the other order
withAirlineSwapped(flight, airline) ==
    Flight(flight.id, flight.time, flight.tail, flight.type, airline,
           flight.callsign,
           Location(flight.from.name, flight.from.lat, flight.from.lon),
           Location(flight.to.name, flight.to.lat, flight.to.lon),
           flight.bound)

withAirline(flight, airline) ==
    Flight(flight.id, flight.time, flight.tail, flight.type, airline,
           flight.callsign,
           Location(flight.to.name, flight.to.lat, flight.to.lon),
           Location(flight.from.name, flight.from.lat, flight.from.lon),
           flight.bound)

\* what the loop body does to the entry being visited, and the branch doing it
Delete(step) == [op |-> "delete", step |-> step]

Keep == [op |-> "keep", step |-> "none"]

Set(step, flight) == [op |-> "set", step |-> step, flight |-> flight]

\* prefixes.find(p => flight.tail?.toUpperCase().startsWith(p))
findPrefix(list, tail) ==
    IF \E i \in 1..Len(list) : startsWith(toUpperCase(tail), list[i])
    THEN list[CHOOSE i \in 1..Len(list) :
                /\ startsWith(toUpperCase(tail), list[i])
                /\ \A j \in 1..(i-1) : ~startsWith(toUpperCase(tail), list[j])]
    ELSE UNDEFINED

\* the "Regional registrations" block, entered when isRegistration(flight)
registration(list, flight) ==
    IF ~includes(flight.tail, "-")
    THEN LET prefix == findPrefix(list, flight.tail) IN
         IF prefix = UNDEFINED THEN Delete("registration")
         ELSE Set("registration", withAirline(flight,
                  tailToCallsign(prefix,
                      sliceFrom(toUpperCase(flight.tail), Len(prefix)))))
    ELSE Set("registration", withAirline(flight,
             tailToCallsign(slice(flight.tail, 0, indexOf(flight.tail, "-")),
                            sliceFrom(flight.tail, indexOf(flight.tail, "-") + 1))))

\* variant that tests the upper-cased callsign
airlineCallsignAnyCase(flight) ==
    IF ~testAirlineCallsign(toUpperCase(flight.callsign)) THEN Delete("airline")
    ELSE Set("airline", withAirline(flight, slice(flight.callsign, 0, 3)))

\* "Assuming airline callsign": callsign present, airline "{PVT}" or null
airlineCallsign(flight) ==
    IF ~testAirlineCallsign(flight.callsign) THEN Delete("airline")
    ELSE Set("airline", withAirline(flight, slice(flight.callsign, 0, 3)))

\* variant that strips before upper-casing
longCallsignStripFirst(flight) ==
    Set("long", withAirline(flight,
        toUpperCase(stripNonAlnum(flight.callsign)) \o <<"-">>))

\* airline present and the callsign starts with more than 3 letters
longCallsign(flight) ==
    Set("long", withAirline(flight,
        stripNonAlnum(toUpperCase(flight.callsign)) \o <<"-">>))

\* one pass of the loop body: what is done to the entry being visited
normalise(list, flight) ==
    IF discardedAtFirst(flight) THEN Delete("first")
    ELSE IF isRegistration(flight) THEN registration(list, flight)
    ELSE IF flight.callsign # NULL /\ (flight.airline = PVT \/ flight.airline = NULL)
    THEN airlineCallsign(flight)
    ELSE IF flight.callsign # NULL /\ testFourLetters(toUpperCase(flight.callsign))
    THEN longCallsign(flight)
    ELSE Keep

-----------------------------------------------------------------------------
(* gen: the aggregator, cli.ts:1451-1525 *)

NaN == -1

RECURSIVE replaceAll(_, _, _)
\* s.replaceAll(c, w) for a one-character c
replaceAll(s, c, w) ==
    IF s = <<>> THEN <<>>
    ELSE (IF Head(s) = c THEN w ELSE <<Head(s)>>) \o replaceAll(Tail(s), c, w)

RECURSIVE replaceNumbers(_, _)
\* for (const [number, value] of Object.entries(NUMBERS))
\*     pronunciation = pronunciation.replaceAll(number, ` ${value} `)
replaceNumbers(s, k) ==
    IF k > Len(NUMBERSKeys) THEN s
    ELSE replaceNumbers(
             replaceAll(s, NUMBERSKeys[k], <<" ">> \o NUMBERS(NUMBERSKeys[k]) \o <<" ">>),
             k + 1)

RECURSIVE trimStart(_)
trimStart(s) ==
    IF s # <<>> /\ IsSpace(Head(s)) THEN trimStart(Tail(s)) ELSE s

RECURSIVE trimEnd(_)
trimEnd(s) ==
    IF s # <<>> /\ IsSpace(s[Len(s)]) THEN trimEnd(dropLast(s)) ELSE s

trim(s) == trimEnd(trimStart(s))

RECURSIVE collapseSpaces(_)
\* s.replace(/\s+/g, " ")
collapseSpaces(s) ==
    IF Len(s) < 2 THEN s
    ELSE IF IsSpace(s[1]) /\ IsSpace(s[2]) THEN collapseSpaces(Tail(s))
    ELSE <<Head(s)>> \o collapseSpaces(Tail(s))

RECURSIVE join(_, _)
\* words.join(sep)
join(words, sep) ==
    IF words = <<>> THEN <<>>
    ELSE IF Len(words) = 1 THEN words[1]
    ELSE words[1] \o sep \o join(Tail(words), sep)

\* spelling of a code: split(""), map PHONETIC[c] ?? c, join(" ")
spell(code) == join([i \in 1..Len(code) |-> PHONETIC(code[i])], <<" ">>)

\* variant that always spells, never consulting the dictionary
pronunciationNoDictionary(airline) ==
    IF airline # NULL /\ endsWith(airline, "-")
    THEN toLowerCase(collapseSpaces(trim(replaceNumbers(dropLast(airline), 1))))
    ELSE IF airline = NULL \/ includes(airline, "-") THEN NULL
    ELSE spell(toUpperCase(airline))

\* the pronunciation given to a new cluster
pronunciation(airline) ==
    IF airline # NULL /\ endsWith(airline, "-")
    THEN toLowerCase(collapseSpaces(trim(replaceNumbers(dropLast(airline), 1))))
    ELSE IF airline = NULL \/ includes(airline, "-") THEN NULL
    ELSE IF callsignsGet(toUpperCase(airline)) # UNDEFINED
    THEN callsignsGet(toUpperCase(airline))
    ELSE spell(toUpperCase(airline))

\* m.airline === flight.airline && m.type.has(flight.type) && m.direction.has(direction)
\* variant that does not look at the direction
matchesAnyDirection(m, flight) ==
    /\ m.airline = flight.airline
    /\ flight.type \in m.type

matches(m, flight) ==
    /\ m.airline = flight.airline
    /\ flight.type \in m.type
    /\ direction(flight) \in m.direction

\* variant that compares the airline only
findExistingByAirline(clusters, flight) ==
    IF \E i \in 1..Len(clusters) : clusters[i].airline = flight.airline
    THEN CHOOSE i \in 1..Len(clusters) :
            /\ clusters[i].airline = flight.airline
            /\ \A j \in 1..(i-1) : clusters[j].airline # flight.airline
    ELSE 0

\* merged.find(...): index of the first matching cluster, 0 for undefined
findExisting(clusters, flight) ==
    IF \E i \in 1..Len(clusters) : matches(clusters[i], flight)
    THEN CHOOSE i \in 1..Len(clusters) :
            /\ matches(clusters[i], flight)
            /\ \A j \in 1..(i-1) : ~matches(clusters[j], flight)
    ELSE 0

newCluster(flight) ==
    [airline |-> flight.airline,
     type |-> {flight.type},
     direction |-> {direction(flight)},
     flights |-> <<flight>>,
     score |-> NaN,
     pronunciation |-> pronunciation(flight.airline)]

\* variant that starts a cluster for every flight
mergeFlightAlwaysNew(clusters, flight) ==
    Append(clusters, newCluster(flight))

\* variant that leaves a matching cluster as it is
mergeFlightNoPush(clusters, flight) ==
    IF findExisting(clusters, flight) # 0 THEN clusters
    ELSE Append(clusters, newCluster(flight))

\* the body of the merge loop for a flight whose airline is not undefined
mergeFlight(clusters, flight) ==
    LET existing == findExisting(clusters, flight) IN
    IF existing # 0
    THEN [clusters EXCEPT ![existing] =
             [@ EXCEPT !.flights = Append(@, flight),
                       !.type = @ \cup {flight.type},
                       !.direction = @ \cup {direction(flight)}]]
    ELSE Append(clusters, newCluster(flight))

\* variant that takes the length of the first cluster for the largest
maxLengthFirst(clusters) ==
    IF clusters = <<>> THEN 0 ELSE Len(Head(clusters).flights)

RECURSIVE maxLength(_)
\* Math.max(...merged.map(m => m.flights.length)); 0 stands for -Infinity
maxLength(clusters) ==
    IF clusters = <<>> THEN 0
    ELSE LET rest == maxLength(Tail(clusters)) IN
         IF Len(Head(clusters).flights) > rest THEN Len(Head(clusters).flights) ELSE rest

\* variant that truncates instead of rounding
scoreOfTruncated(count, maxFlights) == (count * 1000) \div maxFlights

\* Math.round((count / maxFlights) * 1000), the score in hundredths:
\* m.score is this number divided by 100
scoreOf(count, maxFlights) == (2 * count * 1000 + maxFlights) \div (2 * maxFlights)

\* variant with the cutoff "m.score > 0.01"
aboveCutoffExclusive(score) == score > 1

\* m.score >= 0.005
aboveCutoff(score) == 2 * score >= 1

scored(clusters) ==
    LET maxFlights == maxLength(clusters) IN
    [i \in 1..Len(clusters) |->
        [clusters[i] EXCEPT !.score = scoreOf(Len(clusters[i].flights), maxFlights)]]

\* variant with the score test "m.score > 0 && m.score <= 0.005"
warnedBelowCutoff(m) ==
    /\ m.pronunciation # NULL
    /\ m.score > 0 /\ 2 * m.score <= 1
    /\ ~endsWith(m.airline, "-")
    /\ m.pronunciation \notin callsignsValues

\* the condition of the WARNING line
warned(m) ==
    /\ m.pronunciation # NULL
    /\ aboveCutoff(m.score)
    /\ ~endsWith(m.airline, "-")
    /\ m.pronunciation \notin callsignsValues

\* collation rank of a character: punctuation, then digits, then letters
rank(c) ==
    IF IsDigit(c) THEN 100 + (CHOOSE i \in 1..10 : NUMBERSKeys[i] = c)
    ELSE IF IsUpperLetter(UpperChar(c))
    THEN 200 + (CHOOSE i \in 1..26 : alphabet[i] = UpperChar(c))
    ELSE IF c = " " THEN 1
    ELSE IF c = "-" THEN 2
    ELSE IF c = "." THEN 3
    ELSE IF c = "{" THEN 4
    ELSE IF c = "}" THEN 5
    ELSE 6

RECURSIVE comparePrimary(_, _)
comparePrimary(a, b) ==
    IF a = <<>> /\ b = <<>> THEN 0
    ELSE IF a = <<>> THEN -1
    ELSE IF b = <<>> THEN 1
    ELSE IF rank(Head(a)) < rank(Head(b)) THEN -1
    ELSE IF rank(Head(a)) > rank(Head(b)) THEN 1
    ELSE comparePrimary(Tail(a), Tail(b))

RECURSIVE compareCase(_, _)
\* equal letters: the lower-case one first, at the first difference
compareCase(a, b) ==
    IF a = <<>> \/ b = <<>> THEN 0
    ELSE IF Head(a) = Head(b) THEN compareCase(Tail(a), Tail(b))
    ELSE IF IsLowerLetter(Head(a)) THEN -1 ELSE 1

\* a.localeCompare(b)
localeCompare(a, b) ==
    IF comparePrimary(a, b) # 0 THEN comparePrimary(a, b) ELSE compareCase(a, b)

\* the four comparators handed to Array.prototype.sort by gen: Before holds
\* iff the comparator's result is negative
Before(order, a, b) ==
    CASE order = "airline" -> localeCompare(a.airline, b.airline) < 0
      [] order = "score" -> b.score - a.score < 0
      [] order = "string" -> localeCompare(a, b) < 0
      [] order = "name" -> localeCompare(<<a>>, <<b>>) < 0

RECURSIVE insertSorted(_, _, _)
\* x goes behind every element that does not come after it
insertSorted(sorted, x, order) ==
    IF sorted = <<>> THEN <<x>>
    ELSE IF Before(order, x, Head(sorted)) THEN <<x>> \o sorted
    ELSE <<Head(sorted)>> \o insertSorted(Tail(sorted), x, order)

RECURSIVE sort(_, _)
\* Array.prototype.sort, which is stable
sort(array, order) ==
    IF array = <<>> THEN <<>>
    ELSE insertSorted(sort(dropLast(array), order), array[Len(array)], order)

RECURSIVE SetToSeq(_)
\* Array.from(set): some enumeration of the set, sorted by the caller
SetToSeq(S) ==
    IF S = {} THEN <<>>
    ELSE LET x == CHOOSE x \in S : TRUE IN <<x>> \o SetToSeq(S \ {x})

\* one line of the listing, as its five fields
row(entry) ==
    [airline |-> entry.airline,
     score |-> entry.score,
     types |-> toLowerCase(join(sort(SetToSeq(entry.type), "string"), <<"/">>)),
     pronunciation |-> IF entry.pronunciation = NULL THEN <<"0">> ELSE entry.pronunciation,
     directions |-> toLowerCase(sort(SetToSeq(entry.direction), "name"))]

\* variant that sorts by score first and by airline last
listingScoreFirst(clusters) ==
    sort(sort(SelectSeq(clusters, LAMBDA m : aboveCutoff(m.score)), "score"), "airline")

\* merged.filter(...).sort(...).sort(...)
listing(clusters) ==
    sort(sort(SelectSeq(clusters, LAMBDA m : aboveCutoff(m.score)), "airline"), "score")

-----------------------------------------------------------------------------
(* Inputs: the flights handed to gen by loadFlights *)

MaxFlights == 3

AIRPORT == Location("EGLL", 0, 0)

NORTH == Location("ENGM", 1, 0)

EAST == Location("EDDB", 0, 1)

\* tail numbers: matched and unmatched prefixes, one and two dashes, case
Tails ==
    {NULL,
     <<"N","1","2">>,
     <<"n","1","a">>,
     <<"N","A","1">>,
     <<"G","-","A","B">>,
     <<"g","-","a","b">>,
     <<"A","-","B","-","C">>,
     <<"X","Y","1">>,
     <<"D","-">>,
     <<"A","B","C","D","1">>}

\* aircraft types: two aeroplanes, a helicopter in both cases
Types ==
    {<<"A","3","2","0">>,
     <<"H","6","0">>,
     <<"h","6","0">>}

\* airline as read from the file: null, absent, the no-operator sentinel, codes
Airlines ==
    {NULL,
     UNDEFINED,
     PVT,
     <<"B","A","W">>,
     <<"X","Y","Z">>,
     <<"b","a","w">>,
     <<>>}

\* callsigns: registrations, airline callsigns at the edges of the pattern,
\* callsigns of four letters and more
Callsigns ==
    {NULL,
     <<"N","1","2">>,
     <<"N","1","A">>,
     <<"N","A","1">>,
     <<"G","A","B">>,
     <<"G","-","A","B">>,
     <<"A","B","C">>,
     <<"A","-","B","-","C">>,
     <<"N","-","1","-","2">>,
     <<"X","Y","1">>,
     <<"D">>,
     <<"A","B","C","D","1">>,
     <<"B","A","W","1">>,
     <<"B","A","W","1","2","3","A">>,
     <<"B","A","W","1","2","3","4","A">>,
     <<"b","a","w","1">>,
     <<"B","A","1","2">>,
     <<"B","A","W">>,
     <<"B","A","W","1",".">>,
     <<"D","L","H","2">>,
     <<"A","B","C","D">>,
     <<"a","b","c","d",".","1">>,
     <<"A","B","C","-","D">>}

Shape(tail, type, airline, callsign, from) ==
    [tail |-> tail, type |-> type, airline |-> airline, callsign |-> callsign,
     from |-> from]

\* every combination of the field values above, for a collection of one flight
AllShapes ==
    {Shape(tl, ty, a, c, NORTH) : tl \in Tails, ty \in Types, a \in Airlines, c \in Callsigns}

\* the shapes of the flights of a collection of several flights
Pool ==
    {Shape(NULL, <<"A","3","2","0">>, <<"B","A","W">>, <<"B","A","W","1">>, NORTH),
     Shape(NULL, <<"A","3","2","0">>, <<"B","A","W">>, <<"B","A","W","1">>, EAST),
     Shape(NULL, <<"B","7","3","8">>, <<"B","A","W">>, <<"B","A","W","1">>, NORTH),
     Shape(NULL, <<"A","3","2","0">>, NULL, <<"B","A","W","1">>, NORTH),
     Shape(<<"N","1","2">>, <<"H","6","0">>, <<"B","A","W">>, <<"B","A","W","1">>, NORTH),
     Shape(<<"G","-","A","B">>, <<"A","3","2","0">>, NULL, <<"G","A","B">>, NORTH),
     Shape(NULL, <<"A","3","2","0">>, <<"X","Y","Z">>, <<"A","B","C","D","1">>, EAST),
     Shape(NULL, <<"B","7","3","8">>, <<"X","Y","Z">>, NULL, NORTH)}

\* shape with id: every flight of the file is an arrival at AIRPORT
loadFlight(shape, id) ==
    Flight(id, id, shape.tail, shape.type, shape.airline, shape.callsign,
           AIRPORT, shape.from, "arrival")

\* loadFlights(paths): a Map keyed by id, so ids are distinct
Inputs ==
    {<<loadFlight(sh, 1)>> : sh \in AllShapes}
    \cup UNION {{[i \in 1..n |-> loadFlight(shapes[i], i)] : shapes \in [1..n -> Pool]}
                : n \in 0..MaxFlights}

-----------------------------------------------------------------------------
(* gen as a state machine *)

Init ==
    /\ pc = "normalise"
    /\ prefixes \in PrefixLists
    /\ loaded \in Inputs
    /\ flights = loaded
    /\ cursor = 1
    /\ visits = <<>>
    /\ merged = <<>>
    /\ mcursor = 1
    /\ warnings = <<>>
    /\ output = <<>>
    /\ args = <<>>
    /\ result = <<>>
    /\ NoFetch

removeAt(s, i) == SubSeq(s, 1, i - 1) \o SubSeq(s, i + 1, Len(s))

\* variant that walks the collection by index and steps on after a delete
NormaliseStepByIndex ==
    /\ pc = "normalise"
    /\ cursor <= Len(flights)
    /\ LET flight == flights[cursor]
           todo == normalise(prefixes, flight)
       IN /\ visits' = Append(visits, [id |-> flight.id, step |-> todo.step, op |-> todo.op])
          /\ flights' = IF todo.op = "delete" THEN removeAt(flights, cursor)
                        ELSE IF todo.op = "set"
                        THEN [flights EXCEPT ![cursor] = todo.flight]
                        ELSE flights
          /\ cursor' = cursor + 1
    /\ UNCHANGED fetchVars
    /\ UNCHANGED <<pc, prefixes, loaded, merged, mcursor, warnings, output, args, result>>

\* one iteration of "for (const [id, flight] of flights)"
NormaliseStep ==
    /\ pc = "normalise"
    /\ cursor <= Len(flights)
    /\ LET flight == flights[cursor]
           todo == normalise(prefixes, flight)
       IN /\ visits' = Append(visits, [id |-> flight.id, step |-> todo.step, op |-> todo.op])
          /\ IF todo.op = "delete"
             THEN flights' = removeAt(flights, cursor) /\ cursor' = cursor
             ELSE IF todo.op = "set"
             THEN flights' = [flights EXCEPT ![cursor] = todo.flight]
                  /\ cursor' = cursor + 1
             ELSE flights' = flights /\ cursor' = cursor + 1
    /\ UNCHANGED fetchVars
    /\ UNCHANGED <<pc, prefixes, loaded, merged, mcursor, warnings, output, args, result>>

\* the iterator is exhausted
NormaliseDone ==
    /\ pc = "normalise"
    /\ cursor > Len(flights)
    /\ pc' = "merge"
    /\ UNCHANGED fetchVars
    /\ UNCHANGED <<prefixes, loaded, flights, cursor, visits, merged, mcursor,
                   warnings, output, args, result>>

\* one iteration of "for (const flight of flights.values())"
MergeStep ==
    /\ pc = "merge"
    /\ mcursor <= Len(flights)
    /\ merged' = IF flights[mcursor].airline = UNDEFINED
                 THEN merged
                 ELSE mergeFlight(merged, flights[mcursor])
    /\ mcursor' = mcursor + 1
    /\ UNCHANGED fetchVars
    /\ UNCHANGED <<pc, prefixes, loaded, flights, cursor, visits, warnings, output,
                   args, result>>

MergeDone ==
    /\ pc = "merge"
    /\ mcursor > Len(flights)
    /\ pc' = "score"
    /\ UNCHANGED fetchVars
    /\ UNCHANGED <<prefixes, loaded, flights, cursor, visits, merged, mcursor,
                   warnings, output, args, result>>

\* variant that fails on an empty list of clusters
ScoreNeedsCluster ==
    /\ pc = "score"
    /\ merged # <<>>
    /\ merged' = scored(merged)
    /\ warnings' = warnings \o [i \in 1..Len(SelectSeq(scored(merged), warned)) |->
                                  SelectSeq(scored(merged), warned)[i].airline]
    /\ pc' = "output"
    /\ UNCHANGED fetchVars
    /\ UNCHANGED <<prefixes, loaded, flights, cursor, visits, mcursor, output, args, result>>

\* "calculate score": every cluster is scored, a warning line per warned cluster
Score ==
    /\ pc = "score"
    /\ LET after == scored(merged)
           lines == SelectSeq(after, warned)
       IN /\ merged' = after
          /\ warnings' = warnings \o [i \in 1..Len(lines) |-> lines[i].airline]
    /\ pc' = "output"
    /\ UNCHANGED fetchVars
    /\ UNCHANGED <<prefixes, loaded, flights, cursor, visits, mcursor, output, args, result>>

\* process.stdout.write of the listing
Output ==
    /\ pc = "output"
    /\ LET entries == listing(merged)
       IN output' = [i \in 1..Len(entries) |-> row(entries[i])]
    /\ pc' = "done"
    /\ UNCHANGED fetchVars
    /\ UNCHANGED <<prefixes, loaded, flights, cursor, visits, merged, mcursor,
                   warnings, args, result>>

Next ==
    \/ NormaliseStep
    \/ NormaliseDone
    \/ MergeStep
    \/ MergeDone
    \/ Score
    \/ Output

Spec == Init /\ [][Next]_vars

-----------------------------------------------------------------------------
(* Properties of the normalizer *)

\* the flight as loaded: loadFlights numbers the flights 1, 2, ... in order
Original(id) == loaded[id]

Present(id) == \E i \in 1..Len(flights) : flights[i].id = id

Current(id) == flights[CHOOSE i \in 1..Len(flights) : flights[i].id = id]

IsHelicopter(flight) == \E h \in helicopters : toUpperCase(flight.type) = toUpperCase(h)

Members(m) == {m.flights[i] : i \in 1..Len(m.flights)}

Clusters == {merged[i] : i \in 1..Len(merged)}

Visits == {visits[i] : i \in 1..Len(visits)}

\* C1: a flight whose type, compared without regard to case, is a helicopter
\* type is removed when the normalizer visits it, whatever its airline,
\* callsign and tail; it is in no cluster, and every row of the listing is the
\* row of a cluster without such a member.
C1_HelicoptersExcluded ==
    /\ \A v \in Visits : IsHelicopter(Original(v.id)) => ~Present(v.id)
    /\ \A m \in Clusters : \A f \in Members(m) : ~IsHelicopter(f)
    /\ \A i \in 1..Len(output) :
          \E m \in Clusters :
             /\ output[i] = row(m)
             /\ \A f \in Members(m) : ~IsHelicopter(f)

\* a helicopter with an airline and a callsign was loaded beside a flight that
\* made it to the listing
C1_Witness ==
    /\ pc = "done"
    /\ output # <<>>
    /\ \E v \in Visits :
          /\ IsHelicopter(Original(v.id))
          /\ Original(v.id).airline = <<"B","A","W">>
          /\ Original(v.id).callsign # NULL

\* C2: a visited flight whose airline and callsign are both null, or whose
\* airline and tail are both null, is discarded; the first step discards a
\* flight with a non-null airline only when its type is a helicopter.
C2_FirstStepDiscards ==
    \A v \in Visits :
       LET f == Original(v.id) IN
       /\ (f.airline = NULL /\ (f.callsign = NULL \/ f.tail = NULL))
             => (v.op = "delete" /\ ~Present(v.id))
       /\ (v.step = "first" /\ f.airline # NULL) => IsHelicopter(f)

\* both kinds of discard have happened, and a flight with an airline and no
\* callsign has passed the first step
C2_Witness ==
    /\ \E v \in Visits : Original(v.id).airline = NULL /\ v.step = "first"
    /\ \E v \in Visits :
          /\ Original(v.id).airline \notin {NULL, UNDEFINED}
          /\ Original(v.id).callsign = NULL
          /\ v.step # "first"
          /\ Present(v.id)

\* the claims' own vocabulary, written from their wording

IsLetter(c) == IsUpperLetter(c) \/ IsLowerLetter(c)

WithoutDashes(s) == SelectSeq(s, LAMBDA c : c # "-")

\* tail and callsign present and equal once all dashes are removed, in upper case
SameRegistration(f) ==
    /\ f.tail # NULL
    /\ f.callsign # NULL
    /\ toUpperCase(WithoutDashes(f.tail)) = toUpperCase(WithoutDashes(f.callsign))

\* the N-th digit becomes character N mod 10 of "1234567890", the N-th letter
\* character N mod 26 of "A".."Z", anything else stays
Transliteration(local) ==
    [i \in 1..Len(local) |->
        IF IsDigit(local[i])
        THEN digits[(Cardinality({j \in 1..(i-1) : IsDigit(local[j])}) % 10) + 1]
        ELSE IF IsLetter(local[i])
        THEN alphabet[(Cardinality({j \in 1..(i-1) : IsLetter(local[j])}) % 26) + 1]
        ELSE local[i]]

Synthesized(prefix, local) == toUpperCase(prefix) \o <<"-">> \o Transliteration(local)

FirstDash(s) == CHOOSE i \in 1..Len(s) : s[i] = "-" /\ \A j \in 1..(i-1) : s[j] # "-"

\* the flights that get past the first step
PastFirst == {v \in Visits : v.step # "first"}

\* C3: a flight past the first step whose tail and callsign are equal once all
\* dashes are removed and both are upper-cased, and whose tail has a dash, gets
\* the airline UPPER(tail before its first dash) - transliteration(the rest).
C3_RegistrationWithDash ==
    \A v \in PastFirst :
       LET f == Original(v.id) IN
       (SameRegistration(f) /\ includes(f.tail, "-"))
          => /\ Present(v.id)
             /\ Current(v.id).airline =
                   Synthesized(SubSeq(f.tail, 1, FirstDash(f.tail) - 1),
                               SubSeq(f.tail, FirstDash(f.tail) + 1, Len(f.tail)))

\* the entries of the prefix list that are a prefix of the tail, case ignored
MatchingPrefixes(tail) ==
    {i \in 1..Len(prefixes) : startsWith(toUpperCase(tail), toUpperCase(prefixes[i]))}

LongestPrefix(tail) ==
    prefixes[CHOOSE i \in MatchingPrefixes(tail) :
                \A j \in MatchingPrefixes(tail) : Len(prefixes[j]) <= Len(prefixes[i])]

\* C4: a flight past the first step whose tail equals its callsign modulo
\* dashes and case and whose tail has no dash is discarded when no entry of the
\* prefix list is a prefix of the tail, and otherwise gets the airline
\* synthesized from the longest such entry and the rest of the tail.
C4_LongestPrefix ==
    \A v \in PastFirst :
       LET f == Original(v.id) IN
       (SameRegistration(f) /\ ~includes(f.tail, "-"))
          => IF MatchingPrefixes(f.tail) = {}
             THEN ~Present(v.id)
             ELSE /\ Present(v.id)
                  /\ Current(v.id).airline =
                        Synthesized(LongestPrefix(f.tail),
                                    SubSeq(f.tail, Len(LongestPrefix(f.tail)) + 1, Len(f.tail)))

\* three letters, a digit, then up to three letters or digits
AirlinePattern(s, letters) ==
    \E extra \in 0..3 :
       /\ Len(s) = 4 + extra
       /\ s[1] \in letters /\ s[2] \in letters /\ s[3] \in letters
       /\ IsDigit(s[4])
       /\ \A i \in 5..(4 + extra) : s[i] \in letters \/ IsDigit(s[i])

\* the flights that reach the third step with a callsign and without an operator
ReachAirlineStep ==
    {v \in Visits :
        /\ v.step \notin {"first", "registration"}
        /\ Original(v.id).callsign # NULL
        /\ Original(v.id).airline \in {NULL, PVT}}

\* C5 as stated: such a flight gets the first three characters of its callsign
\* as airline when the callsign matches the pattern in either case, and is
\* discarded when it does not.
C5_PatternAnyCase ==
    \A v \in ReachAirlineStep :
       LET f == Original(v.id) IN
       IF AirlinePattern(f.callsign, Range(alphabet) \cup Range(lowercase))
       THEN Present(v.id) /\ Current(v.id).airline = SubSeq(f.callsign, 1, 3)
       ELSE ~Present(v.id)

\* C5 as amended: the pattern is matched as written, the letters in upper case
\* only; a callsign with a lower-case letter does not match and the flight is
\* discarded.
C5_PatternUpperCase ==
    \A v \in ReachAirlineStep :
       LET f == Original(v.id) IN
       IF AirlinePattern(f.callsign, Range(alphabet))
       THEN Present(v.id) /\ Current(v.id).airline = SubSeq(f.callsign, 1, 3)
       ELSE ~Present(v.id)

\* a flight of the no-operator sentinel was given the airline of its callsign
\* and is listed under it
C5_Witness ==
    /\ pc = "done"
    /\ \E v \in ReachAirlineStep :
          /\ Original(v.id).airline = PVT
          /\ Original(v.id).callsign = <<"B","A","W","1","2","3","A">>
          /\ v.op = "set"
    /\ \E i \in 1..Len(output) : output[i].airline = <<"B","A","W">>

\* C6: a flight that reaches the last step (not discarded, not a registration,
\* with an operator) and whose callsign in upper case begins with four letters
\* gets as airline that upper-cased callsign without its characters other than
\* letters and digits, followed by one dash.
C6_LongCallsign ==
    \A v \in Visits :
       LET f == Original(v.id) IN
       (/\ v.step \notin {"first", "registration", "airline"}
        /\ f.callsign # NULL
        /\ Len(f.callsign) >= 4
        /\ \A i \in 1..4 : IsLetter(f.callsign[i]))
          => /\ f.airline \notin {NULL, PVT}
             /\ Present(v.id)
             /\ Current(v.id).airline =
                   SelectSeq(toUpperCase(f.callsign),
                             LAMBDA c : IsLetter(c) \/ IsDigit(c)) \o <<"-">>

\* a flight with an airline code and a lower-case callsign with a dot was
\* given the airline ABCD1-
C6_Witness ==
    \E v \in Visits :
       /\ v.step = "long"
       /\ Original(v.id).airline = <<"B","A","W">>
       /\ Original(v.id).callsign = <<"a","b","c","d",".","1">>
       /\ Present(v.id)
       /\ Current(v.id).airline = <<"A","B","C","D","1","-">>

-----------------------------------------------------------------------------
(* Properties of the aggregator *)

\* the clusters a flight belongs to by the membership test of the data model
MatchingClusters(f) ==
    {i \in 1..Len(merged) :
        /\ merged[i].airline = f.airline
        /\ f.type \in merged[i].type
        /\ direction(f) \in merged[i].direction}

\* C8: the merge loop appends the flight to the first cluster, in creation
\* order, of its airline whose types hold its type and whose directions hold
\* its direction, and touches no other cluster; without such a cluster it
\* appends, behind all clusters, a cluster of this one flight with exactly
\* its type and its direction.
C8_FirstMatchOrNew ==
    [][(pc = "merge" /\ mcursor' = mcursor + 1 /\ flights[mcursor].airline # UNDEFINED)
         => LET f == flights[mcursor] IN
            IF MatchingClusters(f) # {}
            THEN LET k == CHOOSE i \in MatchingClusters(f) :
                             \A j \in MatchingClusters(f) : i <= j
                 IN /\ Len(merged') = Len(merged)
                    /\ merged'[k].flights = Append(merged[k].flights, f)
                    /\ \A i \in 1..Len(merged) : i # k => merged'[i] = merged[i]
            ELSE /\ Len(merged') = Len(merged) + 1
                 /\ SubSeq(merged', 1, Len(merged)) = merged
                 /\ merged'[Len(merged')].airline = f.airline
                 /\ merged'[Len(merged')].type = {f.type}
                 /\ merged'[Len(merged')].direction = {direction(f)}
                 /\ merged'[Len(merged')].flights = <<f>>]_vars

\* a third flight joined the second of two clusters of one airline
C8_Witness ==
    /\ Len(merged) = 2
    /\ merged[1].airline = merged[2].airline
    /\ Len(merged[1].flights) = 1
    /\ Len(merged[2].flights) = 2

RECURSIVE WordRun(_)
\* the longest prefix without a digit and without a space
WordRun(s) ==
    IF s = <<>> \/ IsDigit(Head(s)) \/ IsSpace(Head(s)) THEN <<>>
    ELSE <<Head(s)>> \o WordRun(Tail(s))

RECURSIVE SpokenWords(_)
\* a code read out: each digit is its number word, each run of other
\* characters a word of its own in lower case
SpokenWords(s) ==
    IF s = <<>> THEN <<>>
    ELSE IF IsSpace(Head(s)) THEN SpokenWords(Tail(s))
    ELSE IF IsDigit(Head(s)) THEN <<NUMBERS(Head(s))>> \o SpokenWords(Tail(s))
    ELSE <<toLowerCase(WordRun(s))>>
         \o SpokenWords(SubSeq(s, Len(WordRun(s)) + 1, Len(s)))

\* the pronunciation by the first applicable rule
ExpectedPronunciation(airline) ==
    IF airline # NULL /\ airline # <<>> /\ airline[Len(airline)] = "-"
    THEN join(SpokenWords(SubSeq(airline, 1, Len(airline) - 1)), <<" ">>)
    ELSE IF airline = NULL \/ (\E i \in 1..Len(airline) : airline[i] = "-")
    THEN NULL
    ELSE IF toUpperCase(airline) \in callsignsKeys
    THEN callsignsGet(toUpperCase(airline))
    ELSE join([i \in 1..Len(airline) |-> PHONETIC(UpperChar(airline[i]))], <<" ">>)

\* C9: in every state a cluster's pronunciation is the one the first
\* applicable rule gives for its airline: it is set when the cluster is made
\* and no later member changes it.
C9_PronunciationByRule ==
    \A m \in Clusters : m.pronunciation = ExpectedPronunciation(m.airline)

\* a cluster of a synthesized code kept its spoken form when a second flight
\* joined it, beside a cluster pronounced from the dictionary
C9_Witness ==
    /\ \E m \in Clusters :
          /\ m.airline = <<"A","B","C","D","1","-">>
          /\ m.pronunciation = <<"a","b","c","d"," ","o","n","e">>
          /\ Len(m.flights) = 2
    /\ \E m \in Clusters :
          /\ m.airline = <<"B","A","W">>
          /\ m.pronunciation = <<"s","p","e","e","d","b","i","r","d">>

-----------------------------------------------------------------------------
(* tailToCallsign on its own *)

MaxLocalLen == 3

LocalChars == {"A", "b", "1", "0", "-"}

StringsUpTo(chars, n) == UNION {[1..k -> chars] : k \in 0..n}

ElevenDigits == [i \in 1..11 |-> "9"]

TwentySevenLetters == [i \in 1..27 |-> "z"]

\* the samples: every short string, the two worked examples, and one string
\* longer than each cycle
Locals ==
    StringsUpTo(LocalChars, MaxLocalLen)
    \cup {<<"A","1","B","2">>, <<"1","2","3","4","5">>, ElevenDigits, TwentySevenLetters}

CountryParts == {<<>>, <<"G">>, <<"n">>, <<"N","a">>}

InitTail ==
    /\ pc = "call"
    /\ args \in [prefix : CountryParts, sample : Locals]
    /\ result = NULL
    /\ NoFetch
    /\ prefixes = <<>>
    /\ loaded = <<>>
    /\ flights = <<>>
    /\ cursor = 1
    /\ visits = <<>>
    /\ merged = <<>>
    /\ mcursor = 1
    /\ warnings = <<>>
    /\ output = <<>>

\* a call of tailToCallsign(prefix, sample)
CallTailToCallsign ==
    /\ pc = "call"
    /\ result' = tailToCallsign(args.prefix, args.sample)
    /\ pc' = "return"
    /\ UNCHANGED fetchVars
    /\ UNCHANGED <<prefixes, loaded, flights, cursor, visits, merged, mcursor,
                   warnings, output, args>>

NextTail == CallTailToCallsign

SpecTail == InitTail /\ [][NextTail]_vars

\* C7: tailToCallsign(prefix, local) is UPPER(prefix), a dash, and a string of
\* the length of local in which the N-th digit is character N mod 10 of
\* "1234567890", the N-th letter character N mod 26 of "A".."Z" and every
\* other character is the one of local; A1B2 and 12345 map to themselves.
C7_Transliteration ==
    pc = "return" =>
       LET n == Len(args.prefix)
           L == SubSeq(result, n + 2, Len(result))
       IN /\ SubSeq(result, 1, n) = toUpperCase(args.prefix)
          /\ result[n + 1] = "-"
          /\ Len(L) = Len(args.sample)
          /\ L = Transliteration(args.sample)
          /\ args.sample \in {<<"A","1","B","2">>, <<"1","2","3","4","5">>}
                => L = args.sample

\* the eleventh digit wrapped around to "1" and the worked example was run
C7_Witness ==
    /\ pc = "return"
    /\ args.sample = ElevenDigits
    /\ result = <<"G","-","1","2","3","4","5","6","7","8","9","0","1">>

-----------------------------------------------------------------------------
(* The scoring step on clusters of any size *)

MaxCount == 4

\* member counts of two clusters: every pair of small counts, and one flight
\* beside a cluster around the size at which 1 / maxFlights * 1000 passes 0.5.
\* For these counts the quotient in double arithmetic rounds as the exact one.
ScoreCounts ==
    {<<a, b>> : a, b \in 1..MaxCount} \cup {<<1, 2 * 1000 + d>> : d \in {-1, 0, 1}}

\* count flights of one airline, type and origin, which the normalizer keeps
\* as they are; ids from first on
flightsOf(airline, first, count) ==
    [i \in 1..count |->
        loadFlight(Shape(NULL, <<"A","3","2","0">>, airline, <<"B","A","W","1">>, NORTH),
                   first + i - 1)]

\* the cluster the merge loop has built of these flights
clusterOf(members) == [newCluster(members[1]) EXCEPT !.flights = members]

\* gen at the "calculate score" loop, after the normalizer kept every flight
\* and the merge loop made one cluster per airline
InitScore ==
    \E counts \in ScoreCounts,
       airline \in {<<"X","Y","Z">>, <<"B","A","W">>,
                    <<"A","B","C","D","1","-">>, <<"G","-","A","B">>} :
       LET few == flightsOf(airline, 1, counts[1])
           many == flightsOf(<<"D","L","H">>, counts[1] + 1, counts[2])
       IN /\ pc = "score"
          /\ prefixes \in PrefixLists
          /\ loaded = few \o many
          /\ flights = few \o many
          /\ cursor = counts[1] + counts[2] + 1
          /\ visits = [i \in 1..(counts[1] + counts[2]) |->
                          [id |-> i, step |-> "none", op |-> "keep"]]
          /\ merged = <<clusterOf(few), clusterOf(many)>>
          /\ mcursor = counts[1] + counts[2] + 1
          /\ warnings = <<>>
          /\ output = <<>>
          /\ args = <<>>
          /\ result = <<>>
          /\ NoFetch

NextScore ==
    \/ Score
    \/ Output

SpecScore == InitScore /\ [][NextScore]_vars

\* the largest member count over all clusters
MaxMembers == CHOOSE n \in {Len(m.flights) : m \in Clusters} :
                 \A m \in Clusters : Len(m.flights) <= n

\* score, in hundredths, is memberCount / maxCount * 1000 rounded to the
\* nearest integer, halves upwards
IsRounded(score, memberCount, maxCount) ==
    /\ 2 * maxCount * score <= 2 * 1000 * memberCount + maxCount
    /\ 2 * 1000 * memberCount + maxCount < 2 * maxCount * (score + 1)

\* C10 as stated: after scoring every cluster's score is
\* round(memberCount / maxCount * 1000) / 100, lies in (0, 10] and is a
\* multiple of 0.01.
C10_ScorePositive ==
    pc \in {"output", "done"} =>
       \A m \in Clusters :
          /\ IsRounded(m.score, Len(m.flights), MaxMembers)
          /\ m.score \in 1..1000

\* C10 as amended: after scoring every cluster's score is
\* round(memberCount / maxCount * 1000) / 100, lies in [0, 10] and is a
\* multiple of 0.01; it is 0 exactly when maxCount is more than 2000 times
\* memberCount.
C10_ScoreRounded ==
    pc \in {"output", "done"} =>
       \A m \in Clusters :
          /\ IsRounded(m.score, Len(m.flights), MaxMembers)
          /\ m.score \in 0..1000
          /\ m.score = 0 <=> MaxMembers > 2 * 1000 * Len(m.flights)

\* a cluster of one flight was scored 0.00 beside a cluster of 2001 flights
\* scored 10.00, and is the only one missing from the listing
C10_Witness ==
    /\ pc = "done"
    /\ \E m, b \in Clusters :
          /\ Len(m.flights) = 1 /\ m.score = 0
          /\ Len(b.flights) = 2 * 1000 + 1 /\ b.score = 1000
    /\ Len(output) = 1
    /\ output[1].score = 1000

\* C11: after scoring, a cluster with strictly more member flights than another
\* has a score at least as high, every cluster whose member count is the
\* largest has score 10.00, and once the listing is written it has a row of
\* score 10.00 whenever there is a cluster.
C11_ScoreMonotone ==
    pc \in {"output", "done"} =>
       /\ \A m1, m2 \in Clusters :
             Len(m1.flights) > Len(m2.flights) => m1.score >= m2.score
       /\ \A m \in Clusters : Len(m.flights) = MaxMembers => m.score = 1000
       /\ (pc = "done" /\ Clusters # {})
             => \E i \in 1..Len(output) : output[i].score = 1000

\* the second of two clusters is the larger one: it was scored 10.00, the
\* first one of 2 flights out of 3 was scored 6.67, and both are listed
C11_Witness ==
    /\ pc = "done"
    /\ Len(merged) = 2
    /\ Len(merged[1].flights) = 2 /\ merged[1].score = 667
    /\ Len(merged[2].flights) = 3 /\ merged[2].score = 1000
    /\ Len(output) = 2
    /\ output[1].score = 1000

\* the clusters that reach the cutoff of 0.005, by their position in merged
Listed == {i \in 1..Len(merged) : 2 * merged[i].score >= 1}

\* C12: the listing has one row for each cluster whose score is at least 0.005
\* and no other row; the rows are in descending order of score, rows of equal
\* score in ascending order of airline code; filtering the rows by
\* score >= 0.005 again removes none.
C12_ListingOrdered ==
    pc = "done" =>
       /\ Len(output) = Cardinality(Listed)
       /\ \A i \in Listed : \E j \in 1..Len(output) :
             /\ output[j].airline = merged[i].airline
             /\ output[j].score = merged[i].score
       /\ \A j \in 1..Len(output) : 2 * output[j].score >= 1
       /\ \A j, k \in 1..Len(output) :
             j < k => \/ output[j].score > output[k].score
                      \/ /\ output[j].score = output[k].score
                         /\ localeCompare(output[j].airline, output[k].airline) <= 0

\* two clusters of equal score are listed by airline, against their order in
\* merged
C12_Witness ==
    /\ pc = "done"
    /\ Len(merged) = 2
    /\ merged[1].score = merged[2].score
    /\ merged[1].airline = <<"X","Y","Z">>
    /\ merged[2].airline = <<"D","L","H">>
    /\ Len(output) = 2
    /\ output[1].airline = <<"D","L","H">>
    /\ output[2].airline = <<"X","Y","Z">>

\* the words the dictionary gives to some airline code
DictionaryWords == {callsignsGet(k) : k \in callsignsKeys}

\* the claim's conditions on a cluster other than the one on its score
Unconfirmed(m) ==
    /\ m.pronunciation # NULL
    /\ (m.airline = <<>> \/ m.airline[Len(m.airline)] # "-")
    /\ m.pronunciation \notin DictionaryWords

\* the warnings are those of the clusters at these positions of merged, one
\* for each
WarningsAreFor(positions) ==
    /\ Len(warnings) = Cardinality(positions)
    /\ \A airline \in {merged[i].airline : i \in 1..Len(merged)} :
          Cardinality({j \in 1..Len(warnings) : warnings[j] = airline})
             = Cardinality({i \in positions : merged[i].airline = airline})

\* C13 as stated: a warning is written for exactly the clusters whose
\* pronunciation is not null, whose score is in (0, 0.005], whose airline does
\* not end in a dash and whose pronunciation is no value of the dictionary;
\* one warning for each.
C13_WarnedBelowCutoff ==
    pc \in {"output", "done"} =>
       WarningsAreFor({i \in 1..Len(merged) :
                          /\ Unconfirmed(merged[i])
                          /\ merged[i].score > 0
                          /\ 2 * merged[i].score <= 1})

\* C13 as amended: a warning is written for exactly the clusters whose
\* pronunciation is not null, whose score is at least 0.005, whose airline
\* does not end in a dash and whose pronunciation is no value of the
\* dictionary; one warning for each.
C13_WarnedAboveCutoff ==
    pc \in {"output", "done"} =>
       WarningsAreFor({i \in 1..Len(merged) :
                          /\ Unconfirmed(merged[i])
                          /\ 2 * merged[i].score >= 1})

\* a cluster of score 3.33 with a spelled pronunciation was warned about, the
\* cluster of a dictionary airline beside it was not
C13_Witness ==
    /\ pc = "done"
    /\ Len(merged) = 2
    /\ merged[1].airline = <<"X","Y","Z">>
    /\ merged[1].score = 333
    /\ merged[2].pronunciation = <<"l","u","f","t","h","a","n","s","a">>
    /\ warnings = <<(<<"X","Y","Z">>)>>

\* every flight handed to the merge loop has the same airline, type and
\* direction
Uniform ==
    /\ flights # <<>>
    /\ flights[1].airline # UNDEFINED
    /\ \A i \in 1..Len(flights) :
          /\ flights[i].airline = flights[1].airline
          /\ flights[i].type = flights[1].type
          /\ direction(flights[i]) = direction(flights[1])

\* the phonetic words of the characters of a code, joined by spaces
Spelled(code) == join([i \in 1..Len(code) |-> PHONETIC(UpperChar(code[i]))], <<" ">>)

\* C14: when all flights of the merge loop share airline, type and direction
\* there is exactly one cluster, of score 10.00; and the pronunciation of an
\* airline code without a dash that the dictionary does not have is its
\* phonetic spelling in lower case, joined by spaces.
C14_OneClusterSpelledLowerCase ==
    pc \in {"output", "done"} =>
       /\ Uniform => Len(merged) = 1 /\ merged[1].score = 1000
       /\ \A m \in Clusters :
             (/\ m.airline # NULL
              /\ \A i \in 1..Len(m.airline) : m.airline[i] # "-"
              /\ toUpperCase(m.airline) \notin callsignsKeys)
                => m.pronunciation = toLowerCase(Spelled(m.airline))

\* C15: once the normalizer pass has finished no flight of the collection has
\* a null airline, and no cluster is made for a null airline.
C15_NoNullAirline ==
    pc # "normalise" =>
       /\ \A i \in 1..Len(flights) : flights[i].airline # NULL
       /\ \A m \in Clusters : m.airline # NULL

\* of two flights loaded with a null airline one was given the airline of its
\* registration and has a cluster, the other was discarded
C15_Witness ==
    /\ pc = "done"
    /\ \E id \in 1..Len(loaded) :
          /\ Original(id).airline = NULL
          /\ Present(id)
          /\ Current(id).airline = <<"G","-","A","B">>
    /\ \E id \in 1..Len(loaded) :
          /\ Original(id).airline = NULL
          /\ ~Present(id)
    /\ \E m \in Clusters : m.airline = <<"G","-","A","B">>

\* the airline values that name no operator: absent, the no-operator
\* sentinel, the empty string
Unresolvable == {UNDEFINED, PVT, <<>>}

\* C16: a flight that the normalizer leaves as it is and whose airline names
\* no operator is filtered out by the aggregation: it is a member of no
\* cluster and no row of the listing is for its airline.
C16_UnresolvedFiltered ==
    \A v \in Visits :
       (v.op = "keep" /\ Original(v.id).airline \in Unresolvable)
          => /\ \A m \in Clusters : \A f \in Members(m) : f.id # v.id
             /\ \A j \in 1..Len(output) : output[j].airline # Original(v.id).airline

\* C17: a correction by the normalizer puts a flight in the place of the
\* visited one that has the same id, time, tail, type, callsign, origin,
\* destination and bound, only the airline differing, and changes no other
\* flight of the collection; after the pass the flights stay as they are.
C17_OnlyAirlineChanges ==
    [][/\ Len(flights') = Len(flights)
          => \A i \in 1..Len(flights) :
                \/ flights'[i] = flights[i]
                \/ /\ pc = "normalise"
                   /\ i = cursor
                   /\ [flights'[i] EXCEPT !.airline = flights[i].airline] = flights[i]
       /\ Len(flights') # Len(flights)
          => /\ pc = "normalise"
             /\ flights' = SubSeq(flights, 1, cursor - 1)
                              \o SubSeq(flights, cursor + 1, Len(flights))]_vars

\* a flight was replaced by one with another airline and is still at its
\* place, behind a flight that was kept
C17_Witness ==
    /\ pc = "merge"
    /\ Len(flights) = 3
    /\ flights[2].id = 2
    /\ flights[2].airline # loaded[2].airline
    /\ [flights[2] EXCEPT !.airline = loaded[2].airline] = loaded[2]
    /\ flights[1] = loaded[1]

\* C18: the normalizer pass visits the loaded flights one after the other in
\* the order of the collection, each once; it ends only after the last one,
\* whatever was deleted or replaced on the way.
C18_EveryFlightVisitedOnce ==
    /\ Len(visits) <= Len(loaded)
    /\ \A i \in 1..Len(visits) : visits[i].id = loaded[i].id
    /\ pc # "normalise" => Len(visits) = Len(loaded)

\* the first of three flights was deleted, the second replaced, and the third
\* was visited after them
C18_Witness ==
    /\ pc = "merge"
    /\ Len(visits) = 3
    /\ visits[1].op = "delete"
    /\ visits[2].op = "set"
    /\ visits[3].id = 3

\* C19: when no flight survives the normalizer there is no cluster; gen then
\* goes through the score and the output step without failing, writes no
\* warning and ends with a listing without rows.
C19_EmptyListing ==
    (pc \notin {"normalise", "call", "return"} /\ flights = <<>>) =>
       /\ merged = <<>>
       /\ warnings = <<>>
       /\ output = <<>>
       /\ pc = "merge" => ENABLED MergeDone
       /\ pc = "score" => ENABLED Score
       /\ pc = "output" => ENABLED Output

\* three flights were loaded, all were discarded, and gen has ended with an
\* empty listing
C19_Witness ==
    /\ pc = "done"
    /\ Len(loaded) = 3
    /\ flights = <<>>
    /\ merged = <<>>
    /\ output = <<>>
    /\ warnings = <<>>

-----------------------------------------------------------------------------
(* Direction.fromBearing on its own *)

MaxTurns == 2

\* bearings in whole degrees, MaxTurns full turns to either side of 0
Bearings == (0 - 360 * MaxTurns)..(360 * MaxTurns - 1)

InitBearing ==
    /\ pc = "bearing"
    /\ args \in Bearings
    /\ result = NULL
    /\ NoFetch
    /\ prefixes = <<>>
    /\ loaded = <<>>
    /\ flights = <<>>
    /\ cursor = 1
    /\ visits = <<>>
    /\ merged = <<>>
    /\ mcursor = 1
    /\ warnings = <<>>
    /\ output = <<>>

\* a call of Direction.fromBearing(bearing)
CallFromBearing ==
    /\ pc = "bearing"
    /\ result' = fromBearing(args)
    /\ pc' = "return"
    /\ UNCHANGED fetchVars
    /\ UNCHANGED <<prefixes, loaded, flights, cursor, visits, merged, mcursor,
                   warnings, output, args>>

NextBearing == CallFromBearing

SpecBearing == InitBearing /\ [][NextBearing]_vars

\* the direction of a bearing in [0, 360) by the half-open intervals
Compass(b) ==
    IF 45 <= b /\ b < 135 THEN "E"
    ELSE IF 135 <= b /\ b < 225 THEN "S"
    ELSE IF 225 <= b /\ b < 315 THEN "W"
    ELSE "N"

\* C20: fromBearing gives one of the four directions for every bearing; for a
\* bearing b in [0, 360) it is E for 45 <= b < 135, S for 135 <= b < 225, W
\* for 225 <= b < 315 and N otherwise, and b + 360 gives the same as b.
C20_HalfOpenIntervals ==
    pc = "return" =>
       /\ result \in {"N", "E", "S", "W"}
       /\ args >= 0 => result = Compass(args % 360)

\* the bearing 45 + 360 was given the direction E
C20_Witness ==
    /\ pc = "return"
    /\ args = 45 + 360
    /\ result = "E"

-----------------------------------------------------------------------------
(* The fetch action: pagination, and loadFlights on what fetch has written *)

MaxList == 2

MaxConcurrency == 2

MaxHistory == 2

\* json.hasEarlier: the service has nothing earlier than time 0
hasEarlier(time) == time > 0

\* the ids of the records the service lists for a request: the MaxList latest
\* ones up to the time asked for, the record of time n having the id n among
\* the arrivals and n + 1 among the departures, so that the lists of
\* neighbouring requests and of the two keys overlap
serviceIds(time, key) ==
    LET last == IF key = "mrgaporgic" THEN time + 1 ELSE time
        count == IF last < 0 THEN 0 ELSE IF last < MaxList THEN last ELSE MaxList
    IN [i \in 1..count |-> last - (i - 1)]

\* the Flight that get() makes of the service's record with this id
fetched(id) ==
    loadFlight(Shape(NULL, <<"A","3","2","0">>, <<"B","A","W">>, <<"B","A","W","1">>, NORTH), id)

\* the settled promise of get(icao, time, key); ok is whether the request
\* went through
get(time, key, ok) ==
    IF ~ok THEN [status |-> "rejected"]
    ELSE [status |-> "fulfilled",
          value |-> [list |-> [i \in 1..Len(serviceIds(time, key)) |->
                                  fetched(serviceIds(time, key)[i])],
                     more |-> hasEarlier(time)]]

\* flights.has(id)
has(map, id) == \E i \in 1..Len(map) : map[i].id = id

\* addNew without the test flights.has(flight.id)
addNewUntested(state, list) ==
    [state EXCEPT !.flights = @ \o list, !.newlyFetched = @ \o list]

RECURSIVE addNew(_, _)
\* for (const flight of list) if (!flights.has(flight.id)) { flights.set; push }
\* on the pair of the Map and the list of new flights
addNew(state, list) ==
    IF list = <<>> THEN state
    ELSE IF has(state.flights, Head(list).id) THEN addNew(state, Tail(list))
    ELSE addNew([flights |-> Append(state.flights, Head(list)),
                 newlyFetched |-> Append(state.newlyFetched, Head(list)),
                 error |-> state.error],
                Tail(list))

RECURSIVE settle(_, _)
\* for (const result of results): stops at the first rejected result
settle(state, settled) ==
    IF settled = <<>> THEN state
    ELSE IF Head(settled).status = "rejected" THEN [state EXCEPT !.error = TRUE]
    ELSE settle(addNew(state, Head(settled).value.list), Tail(settled))

\* the position after the while loop of one key: the next key, or the end
afterKey(remaining) == IF Tail(remaining) = <<>> THEN "fetched" ELSE "initial"

InitFetch ==
    /\ pc = "initial"
    /\ concurrency \in (0 - 1)..MaxConcurrency
    /\ keys \in {<<"mrgapdstic">>, <<"mrgapdstic", "mrgaporgic">>}
    /\ more = FALSE
    /\ t = 0
    /\ location = <<>>
    /\ results = <<>>
    /\ flights = <<>>
    /\ loaded = <<>>
    /\ prefixes = <<>>
    /\ cursor = 1
    /\ visits = <<>>
    /\ merged = <<>>
    /\ mcursor = 1
    /\ warnings = <<>>
    /\ output = <<>>
    /\ args = <<>>
    /\ result = <<>>

\* "const initial = await get(...)" of the current key and what follows it up
\* to the test of the while loop; oldest is the time of the oldest flight of
\* the answer
FetchInitial ==
    /\ pc = "initial"
    /\ \E ok \in BOOLEAN, oldest \in 0..MaxHistory :
          IF ~ok
          THEN /\ pc' = "failed"
               /\ UNCHANGED <<flights, location, more, t, keys>>
          ELSE LET initial == [get(MaxHistory, Head(keys), ok).value
                                  EXCEPT !.more = hasEarlier(oldest)]
                   state == addNew([flights |-> flights, newlyFetched |-> <<>>,
                                    error |-> FALSE], initial.list)
               IN /\ flights' = state.flights
                  /\ location' = location \o state.newlyFetched
                  /\ more' = initial.more
                  /\ t' = oldest + 1
                  /\ IF initial.more
                     THEN pc' = "batch" /\ keys' = keys
                     ELSE pc' = afterKey(keys) /\ keys' = Tail(keys)
    /\ UNCHANGED <<prefixes, loaded, cursor, visits, merged, mcursor, warnings,
                   output, args, result, concurrency, results>>

\* the head of one iteration of "while (more)": the batch of requests is sent,
\* t going back one step with each, and Promise.allSettled is awaited
SendBatch ==
    /\ pc = "batch"
    /\ LET n == IF concurrency > 0 THEN concurrency ELSE 0 IN
       \E oks \in [1..n -> BOOLEAN] :
          /\ results' = [i \in 1..n |-> get(t - (i - 1), Head(keys), oks[i])]
          /\ t' = t - n
    /\ pc' = "settled"
    /\ UNCHANGED <<prefixes, loaded, flights, cursor, visits, merged, mcursor,
                   warnings, output, args, result, concurrency, keys, more,
                   location>>

\* the rest of the iteration: what is done with the settled results, up to the
\* test of the while loop
PaginationStep ==
    /\ pc = "settled"
    /\ LET state == settle([flights |-> flights, newlyFetched |-> <<>>,
                            error |-> FALSE], results)
           every == \A i \in 1..Len(results) :
                       results[i].status = "fulfilled" => results[i].value.more
       IN /\ flights' = state.flights
          /\ IF state.error
             THEN /\ pc' = "failed"
                  /\ UNCHANGED <<location, more, keys>>
             ELSE /\ location' = location \o state.newlyFetched
                  /\ more' = every
                  /\ IF every
                     THEN pc' = "batch" /\ keys' = keys
                     ELSE pc' = afterKey(keys) /\ keys' = Tail(keys)
    /\ results' = <<>>
    /\ UNCHANGED <<prefixes, loaded, cursor, visits, merged, mcursor, warnings,
                   output, args, result, concurrency, t>>

\* flights.set(flight.id, flight): a present key keeps its place
mapSet(map, flight) ==
    IF has(map, flight.id)
    THEN [i \in 1..Len(map) |-> IF map[i].id = flight.id THEN flight ELSE map[i]]
    ELSE Append(map, flight)

RECURSIVE setAll(_, _)
\* for (const flight of list) flights.set(flight.id, flight)
setAll(map, list) ==
    IF list = <<>> THEN map ELSE setAll(mapSet(map, Head(list)), Tail(list))

\* the file of an earlier run: it has the first id twice and the second id
Earlier ==
    [i \in 1..3 |->
        loadFlight(Shape(NULL, <<"A","3","2","0">>, <<"X","Y","Z">>, <<"B","A","W","1">>, EAST),
                   IF i = 2 THEN 2 ELSE 1)]

\* the command lines of gen: the file fetch has written, the earlier file, both
PathLists == {<<"location">>, <<"earlier">>, <<"earlier", "location">>,
              <<"location", "earlier">>}

RECURSIVE loadFlights(_, _)
\* loadFlights(paths), files being the flights of the file at each path
loadFlights(paths, files) ==
    IF paths = <<>> THEN <<>>
    ELSE setAll(loadFlights(dropLast(paths), files), files[paths[Len(paths)]])

\* gen run on what fetch has left: "const flights = await loadFlights(paths)";
\* a path without a flight in it (no file, or an empty one) ends gen with
\* program.error
LoadFlights ==
    /\ pc \in {"fetched", "failed"}
    /\ \E paths \in PathLists :
          LET files == [path \in {"location", "earlier"} |->
                           IF path = "location" THEN location ELSE Earlier]
          IN IF \E i \in 1..Len(paths) : files[paths[i]] = <<>>
             THEN pc' = "error" /\ loaded' = loaded
             ELSE pc' = "loaded" /\ loaded' = loadFlights(paths, files)
    /\ UNCHANGED fetchVars
    /\ UNCHANGED <<prefixes, flights, cursor, visits, merged, mcursor, warnings,
                   output, args, result>>

NextFetch ==
    \/ FetchInitial
    \/ SendBatch
    \/ PaginationStep
    \/ LoadFlights

SpecFetch == InitFetch /\ [][NextFetch]_vars

\* the event loop runs every continuation that is ready: the fetch action goes
\* on as long as it has a step to take
SpecFetchFair == SpecFetch /\ WF_vars(NextFetch)

-----------------------------------------------------------------------------
(* C21 *)

\* C21: when fetch has abandoned pagination (a request was rejected), every
\* flight accepted into the in-memory collection, those of the fulfilled
\* requests of the failing batch included, is in the output location
C21_FailedBatchSaved ==
    pc = "failed" => \A i \in 1..Len(flights) : has(location, flights[i].id)

-----------------------------------------------------------------------------
(* C22 *)

\* no two entries of the collection have the same id
OnePerId(map) ==
    \A i, j \in 1..Len(map) : map[i].id = map[j].id => i = j

\* C22: the collection fetch keeps, the lines it has appended to the output
\* location and the collection loadFlights delivers to gen each hold at most
\* one flight per id, whatever the overlap between the answers of the
\* requests, between the arrivals and the departures, or between the files
C22_OneFlightPerId ==
    /\ OnePerId(flights)
    /\ OnePerId(location)
    /\ OnePerId(loaded)

\* both keys were fetched with pagination, their answers overlapping, and gen
\* has loaded the file written together with an earlier file of the same ids
C22_Witness ==
    /\ pc = "loaded"
    /\ keys = <<>>
    /\ t < 0
    /\ Len(location) = MaxHistory + 1
    /\ Len(loaded) = Len(location)
    /\ \E i \in 1..Len(loaded) : loaded[i].airline = <<"X","Y","Z">>
    /\ \E i \in 1..Len(loaded) : loaded[i].airline = <<"B","A","W">>

-----------------------------------------------------------------------------
(* C30 *)

\* C30: whatever the concurrency that passed validation, the pagination loop,
\* once entered, is eventually left
C30_LoopExits ==
    (pc = "batch") ~> (pc \notin {"batch", "settled"})

-----------------------------------------------------------------------------
(* C23 *)

RECURSIVE mergeAll(_, _)
\* the merge loop run to its end over a list of flights
mergeAll(clusters, list) ==
    IF list = <<>> THEN clusters
    ELSE mergeAll(IF Head(list).airline = UNDEFINED THEN clusters
                  ELSE mergeFlight(clusters, Head(list)),
                  Tail(list))

\* the grouping of flights into clusters: the sets of member ids
Grouping(clusters) ==
    {{clusters[i].flights[k].id : k \in 1..Len(clusters[i].flights)} :
        i \in 1..Len(clusters)}

\* the orders in which n flights can be processed
Orders(n) == {p \in [1..n -> 1..n] : \A i, j \in 1..n : p[i] = p[j] => i = j}

Reordered(list, p) == [i \in 1..Len(list) |-> list[p[i]]]

\* some cluster has a member whose type or direction is not the one of its
\* seed flight, the first member
AbsorbsOther(clusters) ==
    \E i \in 1..Len(clusters) : \E k \in 1..Len(clusters[i].flights) :
        \/ clusters[i].flights[k].type # clusters[i].flights[1].type
        \/ direction(clusters[i].flights[k]) # direction(clusters[i].flights[1])

AggregationOver == pc \in {"score", "output", "done"}

\* C23 as stated, asked once an aggregation is over: among the inputs there
\* is one in which a cluster absorbs a flight whose type or direction differs
\* from its seed's, and one whose grouping changes with the order of
\* processing
C23_OrderChangesGrouping ==
    AggregationOver =>
       /\ \E input \in Inputs : AbsorbsOther(mergeAll(<<>>, input))
       /\ \E input \in Inputs : \E p \in Orders(Len(input)) :
             Grouping(mergeAll(<<>>, Reordered(input, p))) # Grouping(mergeAll(<<>>, input))

\* C23: no cluster ever has a member whose type or direction differs from its
\* seed's, and the flights processed in any other order give the same
\* grouping of flights into clusters
C23_GroupingOrderFree ==
    /\ ~AbsorbsOther(merged)
    /\ AggregationOver =>
          \A p \in Orders(Len(flights)) :
              Grouping(mergeAll(<<>>, Reordered(flights, p))) = Grouping(merged)

\* a cluster took its second member after another cluster of the same airline
\* and of another type or direction had been started
C23_Witness ==
    /\ AggregationOver
    /\ \E i, j \in 1..Len(merged) :
          /\ merged[i].airline = merged[j].airline
          /\ <<merged[i].type, merged[i].direction>> # <<merged[j].type, merged[j].direction>>
          /\ Len(merged[i].flights) = 2
          /\ merged[i].flights[1].id < merged[j].flights[1].id
          /\ merged[j].flights[1].id < merged[i].flights[2].id

-----------------------------------------------------------------------------
(* C26 *)

\* C26: in every state of the aggregation each cluster's type set and
\* direction set hold one element, that of its seed flight, and no two
\* clusters have the same airline, type and direction
C26_OneKeyPerCluster ==
    /\ \A i \in 1..Len(merged) :
          /\ Cardinality(merged[i].type) = 1
          /\ Cardinality(merged[i].direction) = 1
          /\ merged[i].type = {merged[i].flights[1].type}
          /\ merged[i].direction = {direction(merged[i].flights[1])}
    /\ \A i, j \in 1..Len(merged) :
          (/\ merged[i].airline = merged[j].airline
           /\ merged[i].type = merged[j].type
           /\ merged[i].direction = merged[j].direction) => i = j

\* in the middle of the loop: a cluster has had the type and direction of a
\* second member united into its sets, another cluster has the same airline
C26_Witness ==
    /\ pc = "merge"
    /\ Len(merged) = 2
    /\ Len(merged[1].flights) = 2
    /\ merged[1].airline = merged[2].airline

-----------------------------------------------------------------------------
(* C27 *)

\* the flights that survived normalization with a defined airline
Aggregated == {flights[i] : i \in 1..Len(flights)} \ {f \in {flights[i] : i \in 1..Len(flights)} : f.airline = UNDEFINED}

RECURSIVE MemberCount(_)
\* the sum of the member counts of a list of clusters
MemberCount(clusters) ==
    IF clusters = <<>> THEN 0
    ELSE Len(Head(clusters).flights) + MemberCount(Tail(clusters))

\* C27: after aggregation every surviving flight with a defined airline is a
\* member of exactly one cluster, every member has its cluster's airline,
\* type and direction, and the member counts add up to the number of these
\* flights
C27_ClustersPartitionFlights ==
    AggregationOver =>
       /\ \A f \in Aggregated :
             Cardinality({i \in 1..Len(merged) : f \in Members(merged[i])}) = 1
       /\ \A i \in 1..Len(merged) : \A k \in 1..Len(merged[i].flights) :
             /\ merged[i].flights[k] \in Aggregated
             /\ merged[i].flights[k].airline = merged[i].airline
             /\ merged[i].type = {merged[i].flights[k].type}
             /\ merged[i].direction = {direction(merged[i].flights[k])}
       /\ MemberCount(merged) = Cardinality(Aggregated)

\* three flights of two airlines in two clusters
C27_Witness ==
    /\ AggregationOver
    /\ Len(flights) = MaxFlights
    /\ Len(merged) = 2
    /\ merged[1].airline # merged[2].airline
    /\ MemberCount(merged) = MaxFlights

-----------------------------------------------------------------------------
(* C28 *)

\* C28: once the scores are set, no score lies strictly between 0 and 0.01;
\* the warning condition "m.score > 0 && m.score <= 0.005" holds of no
\* cluster; and the listing, cut off at score >= 0.005, lacks exactly the
\* clusters whose score was rounded to 0
C28_NothingBelowOneHundredth ==
    pc \in {"output", "done"} =>
       /\ \A m \in Clusters :
             /\ IsRounded(m.score, Len(m.flights), MaxMembers)
             /\ ~(0 < m.score /\ m.score < 1)
             /\ ~warnedBelowCutoff(m)
             /\ aboveCutoff(m.score) <=> m.score # 0
       /\ pc = "done" =>
             {output[j].airline : j \in 1..Len(output)}
                = {m.airline : m \in {c \in Clusters : c.score # 0}}

\* the smallest positive score beside the largest: a cluster of one flight
\* next to one of 2000 is scored 0.01 and listed, and meets every part of the
\* warning condition of the first revision but the score test
C28_Witness ==
    /\ pc = "done"
    /\ Len(output) = 2
    /\ \E m \in Clusters :
          /\ m.score = 1
          /\ Len(m.flights) = 1
          /\ MaxMembers = 2 * 1000
          /\ m.pronunciation # NULL
          /\ ~endsWith(m.airline, "-")
          /\ m.pronunciation \notin callsignsValues

-----------------------------------------------------------------------------
(* C29 *)

\* the flights the normalizer loop has been over: all of them once the loop
\* has ended, those before the iterator while it runs
Normalised ==
    {flights[i] : i \in {k \in 1..Len(flights) : pc # "normalise" \/ k < cursor}}

\* C29: the loop body applied a second time to a flight the normalizer has
\* been over deletes it not and leaves its airline as it is
C29_SecondPassChangesNothing ==
    \A f \in Normalised :
       LET again == normalise(prefixes, f) IN
       /\ again.op # "delete"
       /\ again.op = "set" => again.flight = f

\* the first pass has taken the airline of a "{PVT}" flight from its callsign;
\* a second pass finds the flight in no branch and keeps it as it is
C29_Witness ==
    /\ pc = "merge"
    /\ Len(flights) = 1
    /\ loaded[1].airline = PVT
    /\ visits[1].op = "set"
    /\ visits[1].step = "airline"
    /\ normalise(prefixes, flights[1]).op = "keep"

-----------------------------------------------------------------------------
(* The normalizer of the revision with region rules, part_001:265-345 *)

\* the Flight of that revision: no bound
FlightOfRegions(id, time, tail, type, airline, callsign, to, from) ==
    [id |-> id, time |-> time, tail |-> tail, type |-> type,
     airline |-> airline, callsign |-> callsign, to |-> to, from |-> from]

\* the index a negative or too large argument of slice stands for
sliceIndex(s, k) ==
    IF k < 0 THEN (IF Len(s) + k < 0 THEN 0 ELSE Len(s) + k)
    ELSE IF k > Len(s) THEN Len(s) ELSE k

\* s.slice(from, to) with any integers
sliceAny(s, from, to) == SubSeq(s, sliceIndex(s, from) + 1, sliceIndex(s, to))

\* one item of a regular expression: between min and max characters of a class
Item(chars, min, max) == [chars |-> chars, min |-> min, max |-> max]

One(c) == Item({c}, 1, 1)

D == Range(digits)

L == Range(alphabet)

RECURSIVE testItems(_, _)
\* /^...$/.test(s) for a sequence of items
testItems(s, items) ==
    IF items = <<>> THEN s = <<>>
    ELSE \E n \in Head(items).min..Head(items).max :
            /\ n <= Len(s)
            /\ \A i \in 1..n : s[i] \in Head(items).chars
            /\ testItems(SubSeq(s, n + 1, Len(s)), Tail(items))

\* the table "regexes": the alternatives of each expression and the number of
\* characters that are part of the area code
regexes ==
    << [re |-> {<<One("N"), Item(D, 1, 5), Item(L, 0, 2)>>}, n |-> 1],
       [re |-> {<<One("H"), One("I"), Item(D, 3, 3)>>,
                <<One("H"), One("I"), Item(D, 3, 3), Item(L, 2, 2)>>,
                <<One("H"), One("I"), Item(D, 3, 3), Item(D, 1, 1)>>}, n |-> 2],
       [re |-> {<<One("J"), One("A"), Item(D, 4, 4)>>,
                <<One("J"), One("A"), Item(D, 3, 3), Item(L, 1, 1)>>,
                <<One("J"), One("A"), Item(D, 2, 2), Item(L, 2, 2)>>}, n |-> 2],
       [re |-> {<<One("H"), One("L"), Item(D, 4, 4)>>}, n |-> 2],
       [re |-> {<<One("U"), One("R"), Item(D, 5, 5)>>}, n |-> 2],
       [re |-> {<<One("U"), One("K"), Item(D, 5, 5)>>}, n |-> 2],
       [re |-> {<<One("Y"), One("V"), Item(D, 3, 3), Item(D \cup {"T", "E"}, 1, 1)>>}, n |-> 2],
       [re |-> {<<One("C"), One("-"), Item({"F", "G", "I"}, 1, 1), Item(L, 3, 3)>>}, n |-> 3],
       [re |-> {<<One("7"), One("T"), One("-"), Item({"V", "W"}, 1, 1), Item(L, 2, 2)>>}, n |-> 4],
       [re |-> {<<One("V"), Item({"P", "Q"}, 1, 1), One("-"), One("B"), Item(L, 2, 2)>>}, n |-> 4],
       [re |-> {<<One("V"), One("P"), One("-"), One("L"), Item(L, 2, 2)>>}, n |-> 4],
       [re |-> {<<One("V"), Item({"P", "Q"}, 1, 1), One("-"), One("C"), Item(L, 2, 2)>>}, n |-> 4],
       [re |-> {<<One("C"), One("U"), One("-"), Item({"A", "C", "H", "N", "T", "U"}, 1, 1),
                  One("1"), Item(D, 4, 4)>>}, n |-> 5] >>

\* regex.test(s) for an entry of the table
testRegex(entry, s) == \E items \in entry.re : testItems(s, items)

\* regexes.find(([regex]) => regex.test(s)) ?? null, as an index, 0 for null
findRegex(s) ==
    IF \E i \in 1..Len(regexes) : testRegex(regexes[i], s)
    THEN CHOOSE i \in 1..Len(regexes) :
            /\ testRegex(regexes[i], s)
            /\ \A j \in 1..(i - 1) : ~testRegex(regexes[j], s)
    ELSE 0

withAirlineOfRegions(flight, airline) ==
    FlightOfRegions(flight.id, flight.time, flight.tail, flight.type, airline,
                    flight.callsign,
                    Location(flight.to.name, flight.to.lat, flight.to.lon),
                    Location(flight.from.name, flight.from.lat, flight.from.lon))

\* the body of the loop "remove invalid flights or try to fill data"
normaliseOfRegions(flight) ==
    IF discardedAtFirst(flight) THEN Delete("first")
    ELSE IF flight.callsign # NULL /\ (flight.airline = PVT \/ flight.airline = NULL)
    THEN LET match == IF flight.tail # NULL THEN findRegex(flight.callsign) ELSE 0 IN
         IF match # 0
         THEN Set("region", withAirlineOfRegions(flight,
                  tailToCallsign(
                      replaceAll(sliceAny(flight.tail, 0, regexes[match].n), "-", <<>>),
                      sliceAny(flight.tail, regexes[match].n, Len(flight.tail)))))
         ELSE IF /\ flight.tail # NULL
                 /\ toUpperCase(replaceDash(flight.tail))
                       = toUpperCase(replaceDash(flight.callsign))
         THEN Set("registration", withAirlineOfRegions(flight,
                  tailToCallsign(
                      sliceAny(flight.tail, 0, indexOf(flight.tail, "-")),
                      sliceAny(flight.tail, indexOf(flight.tail, "-") + 1, Len(flight.tail)))))
         ELSE IF testAirlineCallsign(flight.callsign) THEN Delete("airline")
         ELSE Set("airline", withAirlineOfRegions(flight, slice(flight.callsign, 0, 3)))
    ELSE Keep

\* the flights of a file of one flight: tails and callsigns that match a rule,
\* that hold a dash, that do neither; with and without an operator
RegionTails ==
    {NULL,
     <<"X","Y","1">>,
     <<"A","B","1">>,
     <<"N","1","2">>,
     <<"N","1","2","3","A","B">>,
     <<"H","L","1","2","3","4">>,
     <<"G","-","A","B">>,
     <<"C","-","F","A","B","C">>}

RegionCallsigns ==
    {NULL,
     <<"X","Y","1">>,
     <<"x","y","1">>,
     <<"N","1","2">>,
     <<"N","1","2","3","A","B">>,
     <<"H","L","1","2","3","4">>,
     <<"G","A","B">>,
     <<"C","-","F","A","B","C">>,
     <<"A","B","C","D">>,
     <<"B","A","W","1">>}

RegionFlights ==
    {FlightOfRegions(1, 1, tl, ty, a, c, AIRPORT, NORTH) :
        tl \in RegionTails, ty \in {<<"A","3","2","0">>, <<"h","6","0">>},
        a \in {NULL, PVT, <<"B","A","W">>}, c \in RegionCallsigns}

InitRegions ==
    /\ pc = "normalise"
    /\ loaded \in {<<f>> : f \in RegionFlights}
    /\ flights = loaded
    /\ prefixes = <<>>
    /\ cursor = 1
    /\ visits = <<>>
    /\ merged = <<>>
    /\ mcursor = 1
    /\ warnings = <<>>
    /\ output = <<>>
    /\ args = <<>>
    /\ result = <<>>
    /\ NoFetch

\* one iteration of "for (const [id, flight] of flights)"
NormaliseStepOfRegions ==
    /\ pc = "normalise"
    /\ cursor <= Len(flights)
    /\ LET flight == flights[cursor]
           todo == normaliseOfRegions(flight)
       IN /\ visits' = Append(visits, [id |-> flight.id, step |-> todo.step, op |-> todo.op])
          /\ IF todo.op = "delete"
             THEN flights' = removeAt(flights, cursor) /\ cursor' = cursor
             ELSE IF todo.op = "set"
             THEN flights' = [flights EXCEPT ![cursor] = todo.flight]
                  /\ cursor' = cursor + 1
             ELSE flights' = flights /\ cursor' = cursor + 1
    /\ UNCHANGED fetchVars
    /\ UNCHANGED <<pc, prefixes, loaded, merged, mcursor, warnings, output, args, result>>

NextRegions == NormaliseStepOfRegions

SpecRegions == InitRegions /\ [][NextRegions]_vars

-----------------------------------------------------------------------------
(* C24 *)

\* no expression of the table matches s
NoRegion(s) == \A i \in 1..Len(regexes) : ~testRegex(regexes[i], s)

\* C24: a flight with airline null or "{PVT}", with a callsign and with a tail
\* that matches no region rule and holds no dash is discarded by the pass: it
\* is given no airline
C24_NoRuleNoDashDiscarded ==
    \A v \in Visits :
       LET f == Original(v.id) IN
       (/\ f.airline \in {NULL, PVT}
        /\ f.callsign # NULL
        /\ f.tail # NULL
        /\ NoRegion(f.tail)
        /\ ~includes(f.tail, "-")
        /\ toUpperCase(f.type) \notin helicopters)
       => v.op = "delete"

-----------------------------------------------------------------------------
(* loadFlightsFromFs, cli.ts:970-1024 *)

MaxEntries == 6

MaxLevels == 7

\* a file of one flight, and a directory with its entries in readdir order
File == [isDirectory |-> FALSE, entries |-> <<>>,
         flights |-> <<loadFlight(Shape(NULL, <<"A","3","2","0">>, <<"B","A","W">>,
                                        <<"B","A","W","1">>, NORTH), 1)>>]

Directory(entries) == [isDirectory |-> TRUE, entries |-> entries, flights |-> <<>>]

\* a directory per level: <<w, k>> is a directory of w entries, all of them
\* files but the k-th, which is the directory of the next level (a file after
\* the last level)
Levels == {<<w, k>> : w \in 1..MaxEntries, k \in 1..MaxEntries} \ {<<w, k>> \in (1..MaxEntries) \X (1..MaxEntries) : k > w}

RECURSIVE treeOf(_)
treeOf(levels) ==
    IF levels = <<>> THEN File
    ELSE Directory([i \in 1..Head(levels)[1] |->
                       IF i = Head(levels)[2] THEN treeOf(Tail(levels)) ELSE File])

\* the paths given on the command line: a file, directories of up to two
\* levels of every width, and directories with a single entry nested up to
\* MaxLevels levels
Trees ==
    {treeOf(levels) : levels \in UNION {[1..n -> Levels] : n \in 0..2}}
    \cup {treeOf([i \in 1..n |-> <<1, 1>>]) : n \in 0..MaxLevels}

RECURSIVE loadFlightsFromFs(_, _)
RECURSIVE loadEntries(_, _, _)

\* the loop over readdir(file): each call of loadFlightsFromFs is handed
\* ++_currentDepth; program.error ends the program
loadEntries(entries, currentDepth, loadedSoFar) ==
    IF entries = <<>> THEN [error |-> <<>>, flights |-> loadedSoFar]
    ELSE LET inner == loadFlightsFromFs(Head(entries), currentDepth + 1) IN
         IF inner.error # <<>> THEN inner
         ELSE loadEntries(Tail(entries), currentDepth + 1, loadedSoFar \o inner.flights)

loadFlightsFromFs(file, currentDepth) ==
    IF file.isDirectory
    THEN IF currentDepth > 5
         THEN [error |-> <<"maximum sub-directory depth reached">>, flights |-> <<>>]
         ELSE loadEntries(file.entries, currentDepth, <<>>)
    ELSE [error |-> <<>>, flights |-> file.flights]

InitFs ==
    /\ pc = "call"
    /\ args \in [file : Trees]
    /\ result = NULL
    /\ NoFetch
    /\ prefixes = <<>>
    /\ loaded = <<>>
    /\ flights = <<>>
    /\ cursor = 1
    /\ visits = <<>>
    /\ merged = <<>>
    /\ mcursor = 1
    /\ warnings = <<>>
    /\ output = <<>>

\* a call of loadFlightsFromFs(path) by loadFlights
CallLoadFlightsFromFs ==
    /\ pc = "call"
    /\ LET outcome == loadFlightsFromFs(args.file, 0) IN
       IF outcome.error # <<>>
       THEN pc' = "error" /\ result' = outcome.error
       ELSE pc' = "return" /\ result' = outcome.flights
    /\ UNCHANGED fetchVars
    /\ UNCHANGED <<prefixes, loaded, flights, cursor, visits, merged, mcursor,
                   warnings, output, args>>

NextFs == CallLoadFlightsFromFs

SpecFs == InitFs /\ [][NextFs]_vars

-----------------------------------------------------------------------------
(* C25 *)

RECURSIVE Nesting(_)
\* the number of levels the deepest directory of a tree lies below its root;
\* -1 for a file
Nesting(file) ==
    IF ~file.isDirectory THEN 0 - 1
    ELSE LET below == {Nesting(file.entries[i]) : i \in 1..Len(file.entries)} \cup {0 - 1}
         IN 1 + CHOOSE n \in below : \A m \in below : m <= n

RECURSIVE Files(_)
\* the number of files in a tree
Files(file) ==
    IF ~file.isDirectory THEN 1
    ELSE IF file.entries = <<>> THEN 0
    ELSE Files(Head(file.entries)) + Files(Directory(Tail(file.entries)))

\* C25: loadFlightsFromFs fails with "maximum sub-directory depth reached"
\* only if the tree has a directory more than 5 levels below the path given;
\* any other tree is loaded completely, whatever the number of entries of its
\* directories
C25_DepthErrorOnlyWhenNested ==
    /\ pc = "error" => Nesting(args.file) > 5
    /\ (pc = "return" /\ Nesting(args.file) <= 5) => Len(result) = Files(args.file)
    /\ pc \in {"call", "return", "error"}

=============================================================================
